---- MODULE Spec2Model ----
(***************************************************************************)
(* Model of the twitpost content script (src/content.js): the pipeline     *)
(* MutationObserver -> debounce -> findNewButtons -> processPendingButtons *)
(* -> IntersectionObserver -> processButton -> click timer, together with  *)
(* the page (the DOM elements, the browser's observers and its timers) as  *)
(* its environment.                                                        *)
(*                                                                         *)
(* Elements are the numbers 1..n and document order is numeric order.      *)
(* The browser promises no order between its task sources, so a scheduled  *)
(* callback (timeout, interval, idle callback, observer notification) may  *)
(* run at any moment while it is outstanding. Only the debounce timeout is *)
(* timed: it counts its delay down in Tick steps of 100 ms and fires       *)
(* before time moves on once it is due.                                    *)
(*                                                                         *)
(* The specifications share the actions:                                   *)
(*   Spec            the pipeline while the page inserts, removes and      *)
(*                   scrolls elements; scans by the initial timer and the  *)
(*                   backup interval                                       *)
(*   SpecAttributes  the same, the page also changing attributes           *)
(*   SpecTriggers    all scan triggers (debounce, navigation, initial,     *)
(*                   backup) over a page whose elements do not change;     *)
(*                   FairTriggers adds fairness of the browser's timers    *)
(*   SpecWatcher     the mutation observer and the debounce timer alone    *)
(*                   as scan triggers, beside the pipeline                 *)
(*   SpecBatch       more valid buttons than one batch holds               *)
(*   SpecLegacy      the earlier variant of the script (part_000): its     *)
(*                   scan and its click timeouts                           *)
(*   SpecFailure     visible buttons whose click() may raise an error;     *)
(*                   FairFailure adds fairness of the browser's callbacks  *)
(***************************************************************************)
EXTENDS Integers, Sequences, FiniteSets

\* ---------------------------------------------------------------- bounds
NumElems == 1        \* elements of the page in Spec, SpecAttributes, SpecTriggers
NumExcess == 1       \* valid buttons beyond one batch in SpecBatch
NumScrolled == 1     \* buttons the user scrolls into view in SpecBatch
MaxClicks == 2       \* click() calls followed per element
MaxNavTimers == 1    \* navigation timeouts outstanding at once
MaxBurst == 2        \* signals counted per burst
NumReleased == 2     \* visible buttons of the page in SpecFailure
NumLegacyElems == 2  \* elements of the page in SpecLegacy
MaxLegacyScans == 2  \* expandTruncatedPosts() calls followed in SpecLegacy

\* ------------------------------------------------------- program constants
maxProcessPerBatch == 5
maxDepth == 10
debounceDelay == 200
legacyClickDelay == 500

TargetTestid == "tweet-text-show-more-link"
Testids == {TargetTestid, "other"}
Texts == {"Show more", "Show less"}
ContainerDepths == {0, 1, maxDepth, maxDepth + 1}
Urls == {"/home", "/status"}

VARIABLES
    \* the page
    elems,              \* the button elements the page creates in this session
    dom,                \* element -> its DOM properties
    href,               \* location.href
    \* content.js
    initialized,        \* initialize() has run
    tornDown,           \* cleanup() has run
    observer,           \* let observer: "null", "observing" or "disconnected"
    initialTimer,       \* the initial-scan timeout is outstanding
    backupInterval,     \* the setInterval of initialize() is running
    navObserver,        \* navObserver is observing document.body
    processedButtons,   \* const processedButtons = new WeakSet()
    pendingButtons,     \* const pendingButtons = new Set(), in insertion order
    isProcessing,       \* let isProcessing
    idleCallbacks,      \* requestIdleCallback queue: the captured `buttons` arrays
    ioTargets,          \* targets observed by intersectionObserver
    ioEntries,          \* queued IntersectionObserverEntry records
    clickTimers,        \* element -> outstanding setTimeout(click) callbacks
    debounceTimer,      \* let debounceTimer: 0, or the index in timeouts it names
    timeouts,           \* remaining ms of the outstanding debounce timeouts
    currentUrl,         \* let currentUrl
    navTimers,          \* outstanding setTimeout(findNewButtons, 800)
    \* history of the run
    clicked,            \* element -> number of button.click() calls made
    skipped,            \* elements whose click timer fired without a click
    failed,             \* elements whose click() raised an error
    uncaught,           \* an error has left a click timer callback uncaught
    admitted,           \* elements findNewButtons has counted as new
    notified,           \* elements an intersecting entry was delivered for
    pruned,             \* never-visible elements the backup interval has pruned
    sinceSignal,        \* ms since the last debouncedExpand(), capped
    \* the earlier variant (src/unnamed/part_000)
    legacyProcessed,    \* its processedButtons
    legacyTimers,       \* its outstanding click timeouts: [button, delay, scan]
    legacyScheduled,    \* every click timeout it has set
    legacyClickedCount, \* scan -> the clickedCount of that expandTruncatedPosts call
    burst               \* debouncedExpand() calls since the last debounced scan, capped

pageVars == <<elems, dom, href>>
lifecycleVars == <<initialized, tornDown, observer, initialTimer, backupInterval,
                   navObserver>>
admissionVars == <<pendingButtons, isProcessing, idleCallbacks, admitted>>
ioVars == <<ioTargets, ioEntries>>
dispatchVars == <<processedButtons, clickTimers, clicked, skipped, failed, uncaught,
                  notified>>
debounceVars == <<debounceTimer, timeouts, sinceSignal, burst>>
navVars == <<currentUrl, navTimers>>
legacyVars == <<legacyProcessed, legacyTimers, legacyScheduled, legacyClickedCount>>

vars == <<pageVars, lifecycleVars, admissionVars, ioVars, dispatchVars,
          debounceVars, navVars, pruned, legacyVars>>

\* ------------------------------------------------------------ sequences
Range(s) == {s[i] : i \in 1..Len(s)}

Min(a, b) == IF a <= b THEN a ELSE b

\* the sequence s without its i-th member
RemoveAt(s, i) == SubSeq(s, 1, i - 1) \o SubSeq(s, i + 1, Len(s))

\* Set.prototype.add on an insertion-ordered Set
SetAdd(s, e) == IF e \in Range(s) THEN s ELSE Append(s, e)

\* Set.prototype.delete
SetDelete(s, e) == SelectSeq(s, LAMBDA x : x # e)

\* Array.prototype.slice(0, n)
Slice(s, n) == SubSeq(s, 1, Min(Len(s), n))

\* ------------------------------------------------------------- elements
\* An element as the page first builds it: a "Show more" button of a tweet.
FreshElement(connected, intersecting) ==
    [isConnected    |-> connected,
     testid         |-> TargetTestid,
     display        |-> "",
     visibility     |-> "",
     textContent    |-> "Show more",
     disabled       |-> FALSE,
     containerDepth |-> 1,
     isIntersecting |-> intersecting]

InitialElements ==
    {FreshElement(FALSE, FALSE), FreshElement(TRUE, FALSE), FreshElement(TRUE, TRUE)}

\* document.querySelectorAll(BUTTON_SELECTOR), in document order
QuerySelectorAll ==
    SelectSeq([i \in 1..Cardinality(elems) |-> i],
              LAMBDA e : dom[e].isConnected /\ dom[e].testid = TargetTestid)

\* ------------------------------------------------------ content.js helpers
\* the checks of isValidShowMoreButton on the element's own properties
SignatureOk(button) ==
    /\ dom[button].testid = TargetTestid
    /\ ~(dom[button].display = "none" \/ dom[button].visibility = "hidden")
    /\ dom[button].textContent = "Show more"

isValidShowMoreButton(button) ==
    /\ dom[button].isConnected /\ button \notin processedButtons
    /\ SignatureOk(button)

\* the ancestor walk without its depth limit: the fault C20 excludes
findTweetContainerUnbounded(element) == dom[element].containerDepth >= 1

\* TRUE iff one of the first maxDepth ancestors is a tweet container
findTweetContainer(element) ==
    dom[element].containerDepth \in 1..maxDepth

\* processButton without processedButtons.add(button): the fault C1 excludes
processButtonNoMark(button) ==
    IF ~isValidShowMoreButton(button)
    THEN [processed |-> processedButtons, timer |-> FALSE]
    ELSE [processed |-> processedButtons, timer |-> findTweetContainer(button)]

\* processButton(button): the new processedButtons, and whether a click
\* timer is set
processButton(button) ==
    IF ~isValidShowMoreButton(button)
    THEN [processed |-> processedButtons, timer |-> FALSE]
    ELSE [processed |-> processedButtons \cup {button},
          timer     |-> findTweetContainer(button)]

\* the click timer without try/catch: the fault C15 excludes
propagatesUncaught(raised) == raised

\* try { ... } catch (error) { console.error(...) }: whether an error raised
\* inside the click timer leaves the callback
propagates(raised) == FALSE

\* the click timer without its re-validation: the fault C14 excludes
clickUnchecked(button) == TRUE

\* the re-validation inside the click timer
stillClickable(button) ==
    dom[button].isConnected /\ ~dom[button].disabled

\* the callback's condition without entry.isIntersecting: the fault C5 excludes
isReleasedAnyEntry(entry) == entry.target \in Range(pendingButtons)

\* the condition of the IntersectionObserver callback on one entry
isReleased(entry) ==
    entry.isIntersecting /\ entry.target \in Range(pendingButtons)

\* processPendingButtons without pendingButtons.clear(): the fault C18
\* excludes
processPendingButtonsNoClear(pend) ==
    IF isProcessing
    THEN [pending |-> pend, processing |-> isProcessing, idle |-> idleCallbacks]
    ELSE [pending    |-> pend,
          processing |-> TRUE,
          idle       |-> Append(idleCallbacks, Slice(pend, maxProcessPerBatch))]

\* processPendingButtons without the isProcessing guard: the fault C19
\* excludes
processPendingButtonsNoGuard(pend) ==
    [pending    |-> <<>>,
     processing |-> TRUE,
     idle       |-> Append(idleCallbacks, Slice(pend, maxProcessPerBatch))]

\* processPendingButtons without .slice(0, maxProcessPerBatch): the fault C9
\* excludes
processPendingButtonsNoSlice(pend) ==
    IF isProcessing
    THEN [pending |-> pend, processing |-> isProcessing, idle |-> idleCallbacks]
    ELSE [pending    |-> <<>>,
          processing |-> TRUE,
          idle       |-> Append(idleCallbacks, pend)]

\* processPendingButtons() run on the pending set `pend`
processPendingButtons(pend) ==
    IF isProcessing
    THEN [pending |-> pend, processing |-> isProcessing, idle |-> idleCallbacks]
    ELSE [pending    |-> <<>>,
          processing |-> TRUE,
          idle       |-> Append(idleCallbacks, Slice(pend, maxProcessPerBatch))]

\* the buttons findNewButtons counts as new
NewButtons ==
    SelectSeq(QuerySelectorAll,
              LAMBDA b : b \notin processedButtons /\ isValidShowMoreButton(b))

RECURSIVE AddAll(_, _)
AddAll(pend, buttons) ==
    IF buttons = <<>> THEN pend
    ELSE AddAll(SetAdd(pend, Head(buttons)), Tail(buttons))

\* findNewButtons() run on the pending set `pend`; count is its return value
findNewButtons(pend) ==
    LET newButtonCount == Len(NewButtons)
        added == AddAll(pend, NewButtons)
        r == IF newButtonCount > 0
             THEN processPendingButtons(added)
             ELSE [pending |-> added, processing |-> isProcessing,
                   idle |-> idleCallbacks]
    IN  [pending |-> r.pending, processing |-> r.processing, idle |-> r.idle,
         count |-> newButtonCount]

\* the state change of one call of findNewButtons on the pending set `pend`
Scan(pend) ==
    LET r == findNewButtons(pend)
    IN  /\ pendingButtons' = r.pending
        /\ isProcessing' = r.processing
        /\ idleCallbacks' = r.idle
        /\ admitted' = admitted \cup Range(NewButtons)

\* clearTimeout(debounceTimer)
ClearDebounce ==
    IF debounceTimer = 0 THEN timeouts ELSE RemoveAt(timeouts, debounceTimer)

\* debouncedExpand without clearTimeout(debounceTimer): the fault C8 excludes
debouncedExpandNoClear ==
    /\ timeouts' = Append(timeouts, debounceDelay)
    /\ debounceTimer' = Len(timeouts) + 1
    /\ sinceSignal' = 0
    /\ burst' = Min(burst + 1, MaxBurst)

\* debouncedExpand(): clearTimeout(debounceTimer), then a new timeout
debouncedExpand ==
    /\ timeouts' = Append(ClearDebounce, debounceDelay)
    /\ debounceTimer' = Len(ClearDebounce) + 1
    /\ sinceSignal' = 0
    /\ burst' = Min(burst + 1, MaxBurst)

\* the test of the MutationObserver callback on one added node
Qualifies(node) ==
    /\ node.nodeType = "ELEMENT_NODE"
    /\ \/ node.testidIncludesTweet
       \/ node.containsButton
       \/ node.matchesTweet

\* the callback's test without the test of the added nodes: the fault C16
\* excludes
shouldProcessAnyAdded(batch) ==
    \E i \in 1..Len(batch) :
        batch[i].type = "childList" /\ Len(batch[i].addedNodes) > 0

shouldProcess(batch) ==
    \E i \in 1..Len(batch) :
        /\ batch[i].type = "childList"
        /\ Len(batch[i].addedNodes) > 0
        /\ \E j \in 1..Len(batch[i].addedNodes) : Qualifies(batch[i].addedNodes[j])

\* the pruning loop of the backup interval
prune(pend) == SelectSeq(pend, LAMBDA b : dom[b].isConnected)

\* ------------------------------------------------------------------ Init
InitProgram ==
    /\ href = "/home"
    /\ initialized = FALSE
    /\ tornDown = FALSE
    /\ observer = "null"
    /\ initialTimer = FALSE
    /\ backupInterval = FALSE
    /\ navObserver = FALSE
    /\ processedButtons = {}
    /\ pendingButtons = <<>>
    /\ isProcessing = FALSE
    /\ idleCallbacks = <<>>
    /\ ioTargets = {}
    /\ ioEntries = {}
    /\ clickTimers = [e \in elems |-> 0]
    /\ debounceTimer = 0
    /\ timeouts = <<>>
    /\ currentUrl = "/home"
    /\ navTimers = 0
    /\ clicked = [e \in elems |-> 0]
    /\ skipped = {}
    /\ failed = {}
    /\ uncaught = FALSE
    /\ admitted = {}
    /\ notified = {}
    /\ pruned = {}
    /\ legacyProcessed = {}
    /\ legacyTimers = {}
    /\ legacyScheduled = {}
    /\ legacyClickedCount = <<>>
    /\ sinceSignal = debounceDelay + 100
    /\ burst = 0

Init ==
    /\ elems = 1..NumElems
    /\ dom \in [elems -> InitialElements]
    /\ InitProgram

InitAttributes ==
    /\ elems = 1..NumElems
    /\ dom \in [elems -> InitialElements]
    /\ InitProgram

\* visible valid buttons only
InitFailure ==
    /\ elems = 1..NumReleased
    /\ dom = [e \in elems |-> FreshElement(TRUE, TRUE)]
    /\ InitProgram

InitLegacy ==
    /\ elems = 1..NumLegacyElems
    /\ dom \in [elems -> InitialElements]
    /\ InitProgram

\* more valid buttons in the document than one batch takes
InitBatch ==
    /\ elems = 1..(maxProcessPerBatch + NumExcess)
    /\ dom = [e \in elems |-> FreshElement(TRUE, FALSE)]
    /\ InitProgram

\* ------------------------------------------------------- the page (DOM)
\* the page changes one element; the IntersectionObserver queues an entry
\* for an observed target whose intersection state changed
PageSets(e, new) ==
    /\ new # dom[e]
    /\ dom' = [dom EXCEPT ![e] = new]
    /\ ioEntries' =
         IF e \in ioTargets /\ new.isIntersecting # dom[e].isIntersecting
         THEN ioEntries \cup {[target |-> e, isIntersecting |-> new.isIntersecting]}
         ELSE ioEntries
    /\ UNCHANGED <<elems, href, ioTargets, pruned, legacyVars>>
    /\ UNCHANGED <<lifecycleVars, admissionVars, dispatchVars, debounceVars, navVars>>

InsertElement(e) ==
    /\ ~dom[e].isConnected
    /\ PageSets(e, [dom[e] EXCEPT !.isConnected = TRUE])

RemoveElement(e) ==
    /\ dom[e].isConnected
    /\ PageSets(e, [dom[e] EXCEPT !.isConnected = FALSE, !.isIntersecting = FALSE])

\* scrolling or layout moves the element across the visibility threshold
SetIntersecting(e, b) ==
    /\ dom[e].isConnected
    /\ b => dom[e].display # "none"
    /\ PageSets(e, [dom[e] EXCEPT !.isIntersecting = b])

SetTestid(e, v) == PageSets(e, [dom[e] EXCEPT !.testid = v])

SetDisplay(e, v) ==
    PageSets(e, [dom[e] EXCEPT !.display = v,
                               !.isIntersecting = IF v = "none" THEN FALSE ELSE @])

SetVisibility(e, v) == PageSets(e, [dom[e] EXCEPT !.visibility = v])

SetText(e, v) == PageSets(e, [dom[e] EXCEPT !.textContent = v])

SetDisabled(e, b) == PageSets(e, [dom[e] EXCEPT !.disabled = b])

SetContainerDepth(e, d) == PageSets(e, [dom[e] EXCEPT !.containerDepth = d])

\* the page's address changes (history.pushState and the like)
ChangeUrl(u) ==
    /\ navTimers < MaxNavTimers
    /\ u # href
    /\ href' = u
    /\ UNCHANGED <<elems, dom, pruned, legacyVars>>
    /\ UNCHANGED <<lifecycleVars, admissionVars, ioVars, dispatchVars, debounceVars,
                   navVars>>

\* 100 ms pass; a due timeout fires before time moves on
Tick ==
    /\ \A i \in 1..Len(timeouts) : timeouts[i] > 0
    /\ timeouts' = [i \in 1..Len(timeouts) |-> timeouts[i] - 100]
    /\ sinceSignal' = Min(sinceSignal + 100, debounceDelay + 100)
    /\ UNCHANGED <<debounceTimer, burst, pruned, legacyVars>>
    /\ UNCHANGED <<pageVars, lifecycleVars, admissionVars, ioVars, dispatchVars,
                   navVars>>

\* --------------------------------------------------------- content.js
\* initialize(): both observers are set up, the initial scan is scheduled,
\* navObserver and the backup interval are started
Initialize ==
    /\ ~initialized
    /\ initialized' = TRUE
    /\ observer' = IF observer = "null" THEN "observing" ELSE observer
    /\ initialTimer' = TRUE
    /\ navObserver' = TRUE
    /\ backupInterval' = TRUE
    /\ UNCHANGED <<tornDown, pruned, legacyVars>>
    /\ UNCHANGED <<pageVars, admissionVars, ioVars, dispatchVars, debounceVars,
                   navVars>>

\* setTimeout(() => { findNewButtons() ... }, 1000) of initialize()
InitialScan ==
    /\ initialTimer
    /\ initialTimer' = FALSE
    /\ Scan(pendingButtons)
    /\ UNCHANGED <<initialized, tornDown, observer, backupInterval, navObserver,
                   pruned, legacyVars>>
    /\ UNCHANGED <<pageVars, ioVars, dispatchVars, debounceVars, navVars>>

\* a timeout set by debouncedExpand() fires
DebouncedScan ==
    \E i \in 1..Len(timeouts) :
        /\ timeouts[i] = 0
        /\ timeouts' = RemoveAt(timeouts, i)
        /\ debounceTimer' = IF debounceTimer = i THEN 0
                            ELSE IF debounceTimer > i THEN debounceTimer - 1
                            ELSE debounceTimer
        /\ burst' = 0
        /\ Scan(pendingButtons)
        /\ UNCHANGED <<sinceSignal, pruned, legacyVars>>
        /\ UNCHANGED <<pageVars, lifecycleVars, ioVars, dispatchVars, navVars>>

\* a timeout set by handleNavigation() fires
NavScan ==
    /\ navTimers > 0
    /\ navTimers' = navTimers - 1
    /\ Scan(pendingButtons)
    /\ UNCHANGED <<currentUrl, pruned, legacyVars>>
    /\ UNCHANGED <<pageVars, lifecycleVars, ioVars, dispatchVars, debounceVars>>

\* the setInterval callback of initialize(): prune, then findNewButtons()
BackupScan ==
    /\ backupInterval
    /\ Scan(prune(pendingButtons))
    /\ pruned' = pruned \cup
         {b \in Range(pendingButtons) :
             /\ ~dom[b].isConnected
             /\ b \notin notified
             /\ [target |-> b, isIntersecting |-> TRUE] \notin ioEntries}
    /\ UNCHANGED legacyVars
    /\ UNCHANGED <<pageVars, lifecycleVars, ioVars, dispatchVars, debounceVars,
                   navVars>>

\* processFunction, run by requestIdleCallback: observe the captured buttons
\* that are connected; a newly observed target gets its first entry queued
IdleCallback ==
    /\ idleCallbacks # <<>>
    /\ LET buttons == Head(idleCallbacks)
           observed == {b \in Range(buttons) : dom[b].isConnected}
       IN  /\ ioTargets' = ioTargets \cup observed
           /\ ioEntries' = ioEntries \cup
                {[target |-> b, isIntersecting |-> dom[b].isIntersecting] :
                     b \in observed \ ioTargets}
    /\ idleCallbacks' = Tail(idleCallbacks)
    /\ isProcessing' = FALSE
    /\ UNCHANGED <<pendingButtons, admitted, pruned, legacyVars>>
    /\ UNCHANGED <<pageVars, lifecycleVars, dispatchVars, debounceVars, navVars>>

\* the IntersectionObserver callback, delivered one queued entry
IntersectionCallback(entry) ==
    /\ entry \in ioEntries
    /\ ioEntries' = ioEntries \ {entry}
    /\ notified' = IF entry.isIntersecting THEN notified \cup {entry.target}
                   ELSE notified
    /\ IF isReleased(entry)
       THEN LET r == processButton(entry.target)
            IN  /\ pendingButtons' = SetDelete(pendingButtons, entry.target)
                /\ processedButtons' = r.processed
                /\ clickTimers' =
                     IF r.timer
                     THEN [clickTimers EXCEPT ![entry.target] = @ + 1]
                     ELSE clickTimers
       ELSE UNCHANGED <<pendingButtons, processedButtons, clickTimers>>
    /\ UNCHANGED <<isProcessing, idleCallbacks, admitted, ioTargets, clicked,
                   skipped, failed, uncaught, pruned, legacyVars>>
    /\ UNCHANGED <<pageVars, lifecycleVars, debounceVars, navVars>>

\* the click timer forgetting a stale button so that it is retried: the fault
\* C11 excludes
ClickTimerRetry(button) ==
    /\ clickTimers[button] > 0
    /\ clicked[button] < MaxClicks
    /\ clickTimers' = [clickTimers EXCEPT ![button] = @ - 1]
    /\ IF stillClickable(button)
       THEN /\ clicked' = [clicked EXCEPT ![button] = @ + 1]
            /\ UNCHANGED <<skipped, processedButtons>>
       ELSE /\ skipped' = skipped \cup {button}
            /\ processedButtons' = processedButtons \ {button}
            /\ UNCHANGED clicked
    /\ UNCHANGED <<failed, uncaught, notified, pruned, legacyVars>>
    /\ UNCHANGED <<pageVars, lifecycleVars, admissionVars, ioVars, debounceVars,
                   navVars>>

\* the setTimeout callback of processButton(): click if the button is still
\* connected and enabled; `raises` tells whether click() raises an error,
\* which the callback catches and logs
ClickTimerRuns(button, raises) ==
    /\ clickTimers[button] > 0
    /\ clicked[button] < MaxClicks
    /\ clickTimers' = [clickTimers EXCEPT ![button] = @ - 1]
    /\ IF stillClickable(button)
       THEN /\ clicked' = [clicked EXCEPT ![button] = @ + 1]
            /\ failed' = IF raises THEN failed \cup {button} ELSE failed
            /\ uncaught' = (uncaught \/ propagates(raises))
            /\ UNCHANGED skipped
       ELSE /\ skipped' = skipped \cup {button}
            /\ UNCHANGED <<clicked, failed, uncaught>>
    /\ UNCHANGED <<processedButtons, notified, pruned, legacyVars>>
    /\ UNCHANGED <<pageVars, lifecycleVars, admissionVars, ioVars, debounceVars,
                   navVars>>

\* the click timer of a button whose click() returns normally
ClickTimer(button) == ClickTimerRuns(button, FALSE)

\* the MutationObserver callback of setupMutationObserver()
ObserverCallback(batch) ==
    /\ observer = "observing"
    /\ IF shouldProcess(batch)
       THEN debouncedExpand
       ELSE UNCHANGED debounceVars
    /\ UNCHANGED <<pruned, legacyVars>>
    /\ UNCHANGED <<pageVars, lifecycleVars, admissionVars, ioVars, dispatchVars,
                   navVars>>

\* handleNavigation(), the callback of navObserver
HandleNavigation ==
    /\ navObserver
    /\ IF href # currentUrl
       THEN /\ currentUrl' = href
            /\ navTimers' = navTimers + 1
       ELSE UNCHANGED navVars
    /\ UNCHANGED <<pruned, legacyVars>>
    /\ UNCHANGED <<pageVars, lifecycleVars, admissionVars, ioVars, dispatchVars,
                   debounceVars>>

\* cleanup(), the beforeunload listener
Cleanup ==
    /\ tornDown' = TRUE
    /\ observer' = IF observer = "null" THEN "null" ELSE "disconnected"
    /\ ioTargets' = {}
    /\ timeouts' = ClearDebounce
    /\ debounceTimer' = 0
    /\ UNCHANGED <<initialized, initialTimer, backupInterval, navObserver,
                   ioEntries, sinceSignal, burst, pruned, legacyVars>>
    /\ UNCHANGED <<pageVars, admissionVars, dispatchVars, navVars>>

\* ------------------------------------- the earlier variant (part_000)
\* isShowMoreButton(button); opacity, size and aria-hidden are taken to pass
isShowMoreButton(button) ==
    /\ dom[button].isConnected
    /\ dom[button].testid = TargetTestid
    /\ dom[button].textContent = "Show more"
    /\ dom[button].display # "none" /\ dom[button].visibility # "hidden"
    /\ ~dom[button].disabled
    /\ dom[button].containerDepth >= 1

\* the forEach of expandTruncatedPosts() over `buttons`. clickedCount is the
\* function's local counter as the loop reads it: only the timeout callbacks
\* increment it, and they run after the loop. k counts the buttons accepted
\* so far in this call.
RECURSIVE expandEach(_, _, _, _, _)
expandEach(buttons, clickedCount, k, processed, timers) ==
    IF buttons = <<>>
    THEN [processed |-> processed, timers |-> timers]
    ELSE LET button == Head(buttons)
         IN  IF button \in processed \/ ~isShowMoreButton(button)
             THEN expandEach(Tail(buttons), clickedCount, k, processed, timers)
             ELSE expandEach(Tail(buttons), clickedCount, k + 1,
                             processed \cup {button},
                             timers \cup
                               {[button |-> button,
                                 delay  |-> legacyClickDelay + clickedCount * 100,
                                 scan   |-> Len(legacyClickedCount) + 1,
                                 k      |-> k]})

\* expandTruncatedPosts(), called by the initial timeout, the debounce
\* timeout, the interval or the navigation timeout
LegacyExpand ==
    /\ Len(legacyClickedCount) < MaxLegacyScans
    /\ LET r == expandEach(QuerySelectorAll, 0, 0, legacyProcessed, {})
       IN  /\ legacyProcessed' = r.processed
           /\ legacyTimers' = legacyTimers \cup r.timers
           /\ legacyScheduled' = legacyScheduled \cup r.timers
    /\ legacyClickedCount' = Append(legacyClickedCount, 0)
    /\ UNCHANGED pruned
    /\ UNCHANGED <<pageVars, lifecycleVars, admissionVars, ioVars, dispatchVars,
                   debounceVars, navVars>>

\* the timeout callback of expandTruncatedPosts() for one button
LegacyClick(t) ==
    /\ t \in legacyTimers
    /\ legacyTimers' = legacyTimers \ {t}
    /\ legacyClickedCount' =
         IF dom[t.button].isConnected /\ isShowMoreButton(t.button)
         THEN [legacyClickedCount EXCEPT ![t.scan] = @ + 1]
         ELSE legacyClickedCount
    /\ UNCHANGED <<legacyProcessed, legacyScheduled, pruned>>
    /\ UNCHANGED <<pageVars, lifecycleVars, admissionVars, ioVars, dispatchVars,
                   debounceVars, navVars>>

\* ------------------------------------------------------------ the inputs
\* an added node, by what the observer callback reads of it (nodeType,
\* dataset.testid including "tweet", querySelector(BUTTON_SELECTOR), matches
\* of the tweet selectors) and by what it is: isTarget, the node is a "Show
\* more" button itself; containsContainer, a tweet container is among its
\* descendants
Node(type, testid, button, tweet, target, container) ==
    [nodeType |-> type, testidIncludesTweet |-> testid,
     containsButton |-> button, matchesTweet |-> tweet,
     isTarget |-> target, containsContainer |-> container]

Nodes ==
    {Node("TEXT_NODE", FALSE, FALSE, FALSE, FALSE, FALSE),
     Node("ELEMENT_NODE", FALSE, FALSE, FALSE, FALSE, FALSE),
     Node("ELEMENT_NODE", TRUE, FALSE, FALSE, FALSE, FALSE),
     Node("ELEMENT_NODE", TRUE, FALSE, FALSE, TRUE, FALSE),
     Node("ELEMENT_NODE", FALSE, TRUE, FALSE, FALSE, TRUE),
     Node("ELEMENT_NODE", TRUE, FALSE, TRUE, FALSE, FALSE),
     Node("ELEMENT_NODE", FALSE, FALSE, TRUE, FALSE, FALSE),
     Node("ELEMENT_NODE", FALSE, FALSE, FALSE, FALSE, TRUE)}

MutationRecords ==
    {[type |-> "childList", addedNodes |-> ns] :
        ns \in {<<>>} \cup {<<n>> : n \in Nodes}}

\* the records that come first in a batch of two: a removal, and the
\* insertion of a wrapper that holds a button inside a tweet
FirstRecords ==
    {[type |-> "childList", addedNodes |-> <<>>],
     [type |-> "childList",
      addedNodes |-> <<Node("ELEMENT_NODE", FALSE, TRUE, FALSE, FALSE, TRUE)>>]}

MutationBatches ==
    {<<r>> : r \in MutationRecords} \cup
    {<<r1, r2>> : r1 \in FirstRecords, r2 \in MutationRecords}

\* ------------------------------------------------------------------ Next
Pipeline ==
    \/ Initialize
    \/ InitialScan
    \/ BackupScan
    \/ IdleCallback
    \/ \E entry \in ioEntries : IntersectionCallback(entry)
    \/ \E button \in elems : ClickTimer(button)
    \/ Cleanup

Restructure ==
    \/ \E e \in elems : InsertElement(e)
    \/ \E e \in elems : RemoveElement(e)
    \/ \E e \in elems, b \in BOOLEAN : SetIntersecting(e, b)

SetAttribute ==
    \/ \E e \in elems, v \in Testids : SetTestid(e, v)
    \/ \E e \in elems, v \in {"", "none"} : SetDisplay(e, v)
    \/ \E e \in elems, v \in {"", "hidden"} : SetVisibility(e, v)
    \/ \E e \in elems, v \in Texts : SetText(e, v)
    \/ \E e \in elems, b \in BOOLEAN : SetDisabled(e, b)
    \/ \E e \in elems, d \in ContainerDepths : SetContainerDepth(e, d)

Triggers ==
    \/ \E batch \in MutationBatches : ObserverCallback(batch)
    \/ DebouncedScan
    \/ Tick
    \/ \E u \in Urls : ChangeUrl(u)
    \/ HandleNavigation
    \/ NavScan

Next == Pipeline \/ Restructure

NextAttributes == Pipeline \/ Restructure \/ SetAttribute

NextTriggers == Pipeline \/ Triggers

NextBatch == Pipeline \/ \E e \in 1..NumScrolled : SetIntersecting(e, TRUE)

NextFailure ==
    \/ Initialize
    \/ InitialScan
    \/ BackupScan
    \/ IdleCallback
    \/ \E entry \in ioEntries : IntersectionCallback(entry)
    \/ \E button \in elems, raises \in BOOLEAN : ClickTimerRuns(button, raises)
    \/ Cleanup

NextWatcher ==
    \/ Pipeline
    \/ \E batch \in MutationBatches : ObserverCallback(batch)
    \/ DebouncedScan
    \/ Tick

NextLegacy ==
    \/ LegacyExpand
    \/ \E t \in legacyTimers : LegacyClick(t)
    \/ \E e \in elems : InsertElement(e)
    \/ \E e \in elems : RemoveElement(e)
    \/ \E e \in elems, b \in BOOLEAN : SetDisabled(e, b)

Spec == Init /\ [][Next]_vars

SpecAttributes == InitAttributes /\ [][NextAttributes]_vars

SpecTriggers == Init /\ [][NextTriggers]_vars

\* the browser runs a callback it has scheduled and lets time pass; nothing
\* obliges the page to mutate or to navigate
FairTriggers ==
    /\ SpecTriggers
    /\ WF_vars(Initialize)
    /\ WF_vars(InitialScan)
    /\ WF_vars(BackupScan)
    /\ WF_vars(IdleCallback)
    /\ WF_vars(\E entry \in ioEntries : IntersectionCallback(entry))
    /\ WF_vars(\E button \in elems : ClickTimer(button))
    /\ WF_vars(DebouncedScan)
    /\ WF_vars(Tick)
    /\ WF_vars(NavScan)

SpecBatch == InitBatch /\ [][NextBatch]_vars

SpecWatcher == Init /\ [][NextWatcher]_vars

SpecLegacy == InitLegacy /\ [][NextLegacy]_vars

SpecFailure == InitFailure /\ [][NextFailure]_vars

\* the browser runs every callback it has scheduled
FairFailure ==
    /\ SpecFailure
    /\ WF_vars(Initialize)
    /\ WF_vars(InitialScan)
    /\ WF_vars(BackupScan)
    /\ WF_vars(IdleCallback)
    /\ WF_vars(\E entry \in ioEntries : IntersectionCallback(entry))
    /\ WF_vars(\E button \in elems, raises \in BOOLEAN : ClickTimerRuns(button, raises))

TypeOK ==
    /\ elems = 1..Cardinality(elems)
    /\ processedButtons \subseteq elems
    /\ Range(pendingButtons) \subseteq elems
    /\ ioTargets \subseteq elems
    /\ \A e \in elems : clickTimers[e] \in 0..MaxClicks /\ clicked[e] \in 0..MaxClicks
    /\ debounceTimer \in 0..Len(timeouts)
    /\ navTimers \in 0..MaxNavTimers
    /\ burst \in 0..MaxBurst
    /\ failed \subseteq elems
    /\ uncaught \in BOOLEAN

\* =================================================================== claims
\* C1 (at-most-once): whatever the interleaving of scans, idle callbacks,
\* visibility notifications and click timers, an element gets at most one
\* click timer in the whole session and click() is called on it at most once.
C1_AtMostOnce == \A e \in elems : clicked[e] + clickTimers[e] <= 1

\* an element has been clicked, is still a connected matching button, and the
\* scans that follow find nothing to admit
C1_ClickedStillMatching ==
    \E e \in elems :
        /\ clicked[e] = 1
        /\ e \in Range(QuerySelectorAll) /\ SignatureOk(e)
        /\ backupInterval /\ ~initialTimer
        /\ NewButtons = <<>>

\* C2 (teardown), as claimed: once cleanup() has run, no step scans, admits,
\* subscribes, delivers a visibility notification, sets a timer or clicks.
C2_QuietAfterTeardown ==
    [][tornDown => UNCHANGED <<admissionVars, ioTargets, dispatchVars,
                               initialTimer, navVars>>]_vars

\* C3 (no double admission), as claimed: no scan counts as new an element
\* that an earlier scan has already admitted.
C3_NoDoubleAdmission ==
    [][(InitialScan \/ DebouncedScan \/ NavScan \/ BackupScan)
          => Range(NewButtons) \cap admitted = {}]_vars

\* C4 (release on visibility), as claimed: the first intersecting
\* notification delivered for a subscribed element that is still valid takes
\* it out of the pending set and hands it to processButton.
C4_ReleasedOnFirstNotification ==
    [][\A e \in elems :
          (e \in notified' /\ e \notin notified /\ isValidShowMoreButton(e))
              => (e \in processedButtons' /\ e \notin Range(pendingButtons'))]_vars

\* C5 (no premature action): an element has a click timer, or has been
\* clicked, only if an intersecting notification was delivered for it before.
C5_NoPrematureAction ==
    \A e \in elems : (clickTimers[e] > 0 \/ clicked[e] > 0) => e \in notified

\* a click timer is outstanding for an element released by its notification
C5_TimerAfterNotification ==
    \E e \in elems : clickTimers[e] = 1 /\ e \in notified /\ e \in processedButtons

\* C6 (no action on invalid elements), as claimed: at the moment click() is
\* called the element is connected, enabled and has the button's signature.
C6_ValidWhenClicked ==
    [][\A e \in elems :
          clicked'[e] > clicked[e]
              => (dom[e].isConnected /\ ~dom[e].disabled /\ SignatureOk(e))]_vars

\* C7 (navigation rescan), as claimed: every change of the address leads to
\* a navigation rescan being scheduled, whether or not the tree mutates.
C7_AddressChangeRescans == (href # currentUrl) ~> (navTimers > 0)

\* C8 (debounce coalescing): at most one debounce timeout is outstanding, it
\* is the one debounceTimer names, it belongs to a burst of signals and it is
\* due debounceDelay after the last of them; the debounced scan that ends a
\* burst runs exactly debounceDelay after the last signal and leaves no
\* timeout behind, so a burst produces one scan.
C8_DebounceCoalesces ==
    [][/\ Len(timeouts') <= 1
       /\ \A i \in 1..Len(timeouts') :
             /\ debounceTimer' = i
             /\ burst' > 0
             /\ timeouts'[i] = debounceDelay - sinceSignal'
       /\ (burst > 0 /\ burst' = 0)
             => (sinceSignal = debounceDelay /\ timeouts' = <<>>)]_vars

\* a burst of MaxBurst signals has left one timeout, due now
C8_BurstDue ==
    burst = MaxBurst /\ timeouts = <<0>> /\ sinceSignal = debounceDelay

\* C9 (batch bound): an idle callback holds, and subscribes, at most
\* maxProcessPerBatch buttons; when a scan hands a batch to an idle callback,
\* the buttons it counted as new but left out of the batch are not put in
\* processedButtons and are counted as new again by the next findNewButtons.
C9_BatchBound ==
    [][/\ \A i \in 1..Len(idleCallbacks') :
             Len(idleCallbacks'[i]) <= maxProcessPerBatch
       /\ Cardinality(ioTargets' \ ioTargets) <= maxProcessPerBatch
       /\ Len(idleCallbacks') > Len(idleCallbacks)
             => \A e \in Range(NewButtons) :
                   e \notin Range(idleCallbacks'[Len(idleCallbacks')])
                       => (e \notin processedButtons' /\ e \in Range(NewButtons'))]_vars

\* more buttons than one batch were admitted and exactly one batch of them
\* is subscribed
C9_ExcessLeftOver ==
    /\ Cardinality(admitted) > maxProcessPerBatch
    /\ Cardinality(ioTargets) = maxProcessPerBatch
    /\ idleCallbacks = <<>>

\* C10 (pending pruning), as claimed: after a backup cycle no pending element
\* is disconnected, and click() is never called on an element that the
\* backup cycle pruned from the pending set before it had become visible.
C10_PrunedNeverClicked ==
    [][/\ BackupScan => \A b \in Range(pendingButtons') : dom[b].isConnected
       /\ \A e \in pruned : clicked'[e] = 0]_vars

\* C11 (registry monotonicity): no step removes an element from
\* processedButtons.
C11_RegistryMonotone == [][processedButtons \subseteq processedButtons']_vars

\* an element marked known is still known after its click timer found it
\* removed from the tree and after teardown
C11_KnownAfterSkipAndTeardown ==
    \E e \in processedButtons : e \in skipped /\ ~dom[e].isConnected /\ tornDown

\* C12 (subscriptions match the pending set), as claimed: while no idle
\* admission is in flight, the observed targets are exactly the members of
\* pendingButtons.
C12_SubscribedIffPending == ~isProcessing => ioTargets = Range(pendingButtons)

\* C13 (single outstanding rescan), as claimed: at most one scheduled rescan
\* (debounce, navigation or initial timeout) is outstanding.
C13_OneScheduledRescan ==
    Len(timeouts) + navTimers + (IF initialTimer THEN 1 ELSE 0) <= 1

\* C13, amended: at most one debounce timeout is outstanding, the one
\* debounceTimer names, and right after a signal it is the timeout that
\* signal has set; the navigation and initial timeouts are scheduled beside
\* it.
C13_OneDebounceTimeout ==
    [][/\ Len(timeouts') <= 1
       /\ timeouts' # <<>> => debounceTimer' = 1
       /\ (sinceSignal' = 0 /\ timeouts' # <<>>) => timeouts' = <<debounceDelay>>]_vars

\* a signal has replaced the timeout of an earlier one while a navigation
\* rescan is scheduled as well
C13_DebounceBesideNavigation ==
    /\ burst = MaxBurst /\ timeouts = <<debounceDelay>>
    /\ navTimers > 0

\* C14 (stale at dispatch): a click timer that fires on a disconnected or
\* disabled button does not click it and leaves it in processedButtons; a
\* button skipped this way is never clicked, gets no further click timer and
\* stays in processedButtons.
C14_StaleSkipped ==
    [][/\ \A e \in elems :
             (clickTimers'[e] < clickTimers[e]
                 /\ (~dom[e].isConnected \/ dom[e].disabled))
                 => (clicked'[e] = clicked[e] /\ e \in processedButtons')
       /\ \A e \in skipped' :
             clicked'[e] = 0 /\ clickTimers'[e] = 0 /\ e \in processedButtons']_vars

\* a skipped button is a connected, enabled, matching, visible and
\* subscribed button again, and has not been clicked
C14_SkippedValidAgain ==
    \E e \in skipped :
        /\ dom[e].isConnected /\ ~dom[e].disabled /\ SignatureOk(e)
        /\ dom[e].isIntersecting /\ e \in ioTargets
        /\ clicked[e] = 0

\* C15 (action failure isolation): an error raised by click() never leaves
\* the click timer callback; the step in which it is raised changes nothing
\* but that button's own timer and click count, so processedButtons, the
\* pending set and every other timer are as before; and every click timer
\* that is outstanding still fires.
C15_FailureIsolated ==
    /\ [][/\ ~uncaught'
          /\ failed' # failed
                => /\ UNCHANGED <<processedButtons, pendingButtons, idleCallbacks,
                                  isProcessing, ioTargets, ioEntries, timeouts,
                                  debounceTimer, navTimers, initialTimer,
                                  backupInterval>>
                   /\ \A o \in elems :
                         o \notin failed' => /\ clickTimers'[o] = clickTimers[o]
                                             /\ clicked'[o] = clicked[o]]_vars
    /\ \A o \in 1..NumReleased : (clickTimers[o] > 0) ~> (clickTimers[o] = 0)

\* click() raised on one button and another button was clicked all the same
C15_OtherStillClicked ==
    \E e \in failed : \E o \in elems \ failed : clicked[e] = 1 /\ clicked[o] = 1

C17_Staggered ==
    /\ \A t \in legacyScheduled : t.delay = legacyClickDelay + t.k * 100
    /\ \A t1, t2 \in legacyScheduled :
          (t1.scan = t2.scan /\ t1.button # t2.button) => t1.delay # t2.delay

\* C18 (dispatch requires an overlapping scan): a button is handed to
\* processButton, and gets its click timer, only in a step that finds it in
\* pendingButtons; and pendingButtons gains a member only in a step taken
\* while an idle admission is outstanding (isProcessing), that is, by a scan
\* that overlaps it. Hence no button is ever clicked in a run in which every
\* idle callback runs before the next scan.
C18_DispatchNeedsOverlap ==
    [][/\ \A e \in elems :
             (e \in processedButtons' \ processedButtons
                 \/ clickTimers'[e] > clickTimers[e])
                 => e \in Range(pendingButtons)
       /\ \A e \in Range(pendingButtons') :
             e \notin Range(pendingButtons) => isProcessing]_vars

\* a scan has overlapped an idle admission and left a subscribed valid
\* button in pendingButtons, with its intersecting entry queued
C18_AboutToDispatch ==
    \E e \in Range(pendingButtons) :
        /\ e \in ioTargets /\ isValidShowMoreButton(e)
        /\ [target |-> e, isIntersecting |-> TRUE] \in ioEntries

\* C19 (single idle admission in flight): at most one idle callback is
\* outstanding and isProcessing is true exactly while it is; a scan taken
\* while it is outstanding puts what it finds in pendingButtons and
\* schedules nothing; the callback resets isProcessing when it runs.
C19_SingleIdleAdmission ==
    [][/\ Len(idleCallbacks') <= 1
       /\ isProcessing' <=> idleCallbacks' # <<>>
       /\ (isProcessing /\ (InitialScan \/ DebouncedScan \/ NavScan \/ BackupScan))
             => /\ idleCallbacks' = idleCallbacks
                /\ Range(NewButtons) \subseteq Range(pendingButtons')
       /\ Len(idleCallbacks') < Len(idleCallbacks) => ~isProcessing']_vars

\* a scan has found a button while the idle callback was outstanding
C19_ScanDuringAdmission ==
    isProcessing /\ Len(idleCallbacks) = 1 /\ pendingButtons # <<>>

\* C20 (container check after marking known): a button handed to
\* processButton with no tweet container among its first maxDepth ancestors
\* is put in processedButtons and gets no click timer; a processed button
\* that has neither a timer, a click nor a skip stays so for ever.
C20_NoContainerNoClick ==
    [][/\ \A e \in elems :
             (e \in processedButtons' \ processedButtons
                 /\ dom[e].containerDepth \notin 1..maxDepth)
                 => clickTimers'[e] = 0
       /\ \A e \in processedButtons :
             (clickTimers[e] = 0 /\ clicked[e] = 0 /\ e \notin skipped)
                 => /\ clickTimers'[e] = 0 /\ clicked'[e] = 0
                    /\ e \notin skipped' /\ e \in processedButtons']_vars

\* a button processed without a container now has one, is a valid visible
\* button, and is not clicked
C20_ContainerTooLate ==
    \E e \in processedButtons :
        /\ clickTimers[e] = 0 /\ clicked[e] = 0 /\ e \notin skipped
        /\ dom[e].isConnected /\ SignatureOk(e) /\ ~dom[e].disabled
        /\ dom[e].containerDepth = 1 /\ dom[e].isIntersecting
====
